---- MODULE Spec2Model ----
(***************************************************************************)
(* Model of readeof (src/src/index.ts): the one-shot read of the last N    *)
(* lines of a file (readeofOnce) and the tail-follow generator             *)
(* (readeofStream).  Files are sequences of bytes, text is a sequence of   *)
(* code points, and every await of the source is one step of the model.   *)
(***************************************************************************)
EXTENDS FiniteSets, Integers, Sequences, TLC

\* ------------------------------------------------------------------ bounds
MaxLen == 4        \* largest file (bytes) of the one-shot specification
MaxLines == 3      \* largest maxLines
MaxBuf == 3        \* largest bufferSize
MaxInit == 1       \* largest file (bytes) when a streaming call starts
MaxGrow == 3       \* bytes appended to a file that only grows
MaxText == 2       \* bytes appended to a file that is also truncated or failing
MaxFaults == 1     \* truncations of the file and stat/read failures injected into
                   \* a watch loop during a call, together

\* ------------------------------------------------------- program constants
LF == 10

\* The bytes files are made of: line feed, 'a', and the two bytes of the
\* UTF-8 encoding of U+00E9 (0xC3 0xA9), so that decoding is not the identity.
Bytes == {LF, 97, 195, 169}

ByteSeqs(n) == UNION {[1..m -> Bytes] : m \in 0..n}

PathKinds == {"file", "missing", "invalid", "dir"}

\* ------------------------------------------------------------ pure helpers
Min(a, b) == IF a < b THEN a ELSE b

\* A continuation byte of UTF-8.
Utf8Cont(c) == c >= 128 /\ c <= 191

\* The second byte a lead byte b accepts (no overlong forms, no surrogates,
\* nothing above U+10FFFF).
Utf8Second(b, c) ==
    CASE b = 224 -> c >= 160 /\ c <= 191
      [] b = 237 -> c >= 128 /\ c <= 159
      [] b = 240 -> c >= 144 /\ c <= 191
      [] b = 244 -> c >= 128 /\ c <= 143
      [] OTHER -> Utf8Cont(c)

\* The number of continuation bytes a lead byte announces; 0 for a byte
\* that is no lead byte.
Utf8Need(b) ==
    IF b >= 194 /\ b <= 223 THEN 1
    ELSE IF b >= 224 /\ b <= 239 THEN 2
    ELSE IF b >= 240 /\ b <= 244 THEN 3
    ELSE 0

\* bs without its first n elements.
Drop(bs, n) == SubSeq(bs, n + 1, Len(bs))

\* Buffer.toString('utf8'): sequences of one to four bytes give their code
\* point; a byte that starts no sequence, and the longest prefix of a
\* sequence that is cut short or continued wrongly, give one U+FFFD.
RECURSIVE Utf8Decode(_)
Utf8Decode(bs) ==
    IF Len(bs) = 0 THEN <<>>
    ELSE LET b == bs[1]
             n == Utf8Need(b)
             ok2 == Len(bs) >= 2 /\ Utf8Second(b, bs[2])
             ok3 == ok2 /\ Len(bs) >= 3 /\ Utf8Cont(bs[3])
             ok4 == ok3 /\ Len(bs) >= 4 /\ Utf8Cont(bs[4])
         IN IF b < 128 THEN <<b>> \o Utf8Decode(Drop(bs, 1))
            ELSE IF n = 1 /\ ok2
            THEN <<(b - 192) * 64 + (bs[2] - 128)>> \o Utf8Decode(Drop(bs, 2))
            ELSE IF n = 2 /\ ok3
            THEN <<(b - 224) * 4096 + (bs[2] - 128) * 64 + (bs[3] - 128)>>
                 \o Utf8Decode(Drop(bs, 3))
            ELSE IF n = 3 /\ ok4
            THEN <<(b - 240) * 262144 + (bs[2] - 128) * 4096 + (bs[3] - 128) * 64
                   + (bs[4] - 128)>> \o Utf8Decode(Drop(bs, 4))
            ELSE LET used == IF n = 0 \/ ~ok2 THEN 1
                             ELSE IF n = 2 \/ ~ok3 THEN 2 ELSE 3
                 IN <<65533>> \o Utf8Decode(Drop(bs, used))

\* The values of the encoding option the model takes: the default, and the
\* two single-byte encodings.
Encodings == {"utf8", "latin1", "ascii"}

\* Buffer.toString(encoding): 'latin1' gives each byte as a code point,
\* 'ascii' each byte with its highest bit unset.
Decode(bs, enc) ==
    CASE enc = "latin1" -> bs
      [] enc = "ascii" -> [i \in 1..Len(bs) |-> bs[i] % 128]
      [] OTHER -> Utf8Decode(bs)

\* Buffer.alloc(n) after a read that returned the bytes bs: the rest of the
\* buffer is zero.
ZeroFilled(bs, n) == bs \o [i \in 1..(n - Len(bs)) |-> 0]

\* String.prototype.split('\n'): always at least one segment.
RECURSIVE Split(_)
Split(s) ==
    IF \A i \in 1..Len(s) : s[i] # LF THEN <<s>>
    ELSE LET i == CHOOSE j \in 1..Len(s) : s[j] = LF /\ \A m \in 1..(j - 1) : s[m] # LF
         IN <<SubSeq(s, 1, i - 1)>> \o Split(SubSeq(s, i + 1, Len(s)))

\* The `if (line.length > 0) yield line` filter of both yield loops.
RECURSIVE NonEmpty(_)
NonEmpty(ls) ==
    IF Len(ls) = 0 THEN <<>>
    ELSE IF Len(Head(ls)) > 0 THEN <<Head(ls)>> \o NonEmpty(Tail(ls))
         ELSE NonEmpty(Tail(ls))

\* fileHandle.read(buffer, 0, length, pos): the bytes [pos, pos+length) that
\* exist in the file; bytesRead is the length of what comes back.
ReadAt(f, pos, length) == SubSeq(f, pos + 1, Min(pos + length, Len(f)))

\* The error open() rejects with for a path that cannot be opened.
OpenError(kind) == IF kind = "dir" THEN "EISDIR" ELSE "ENOENT"

\* Mutants of the scan of readeofOnce: one that counts the line feed at the
\* final byte like any other, one that recognises the final byte by its index
\* in the chunk, and one that starts the result at the line feed itself.
RECURSIVE OnceScanChunk_CountsFinalLF(_, _, _, _, _, _)
OnceScanChunk_CountsFinalLF(buffer, i, pos, size, st, k) ==
    IF i < 0 THEN st
    ELSE IF buffer[i + 1] = LF
         THEN LET lf == st.linesFound + 1
              IN IF lf >= k
                 THEN [linesFound |-> lf, startReadPos |-> pos + i + 1]
                 ELSE OnceScanChunk_CountsFinalLF(buffer, i - 1, pos, size,
                                                  [st EXCEPT !.linesFound = lf], k)
         ELSE OnceScanChunk_CountsFinalLF(buffer, i - 1, pos, size, st, k)

RECURSIVE OnceScanChunk_ChunkRelative(_, _, _, _, _, _)
OnceScanChunk_ChunkRelative(buffer, i, pos, size, st, k) ==
    IF i < 0 THEN st
    ELSE IF buffer[i + 1] = LF
         THEN LET lf == IF (i # Len(buffer) - 1) \/ st.linesFound > 0
                        THEN st.linesFound + 1 ELSE st.linesFound
              IN IF lf >= k
                 THEN [linesFound |-> lf, startReadPos |-> pos + i + 1]
                 ELSE OnceScanChunk_ChunkRelative(buffer, i - 1, pos, size,
                                                  [st EXCEPT !.linesFound = lf], k)
         ELSE OnceScanChunk_ChunkRelative(buffer, i - 1, pos, size, st, k)

RECURSIVE OnceScanChunk_OffByOne(_, _, _, _, _, _)
OnceScanChunk_OffByOne(buffer, i, pos, size, st, k) ==
    IF i < 0 THEN st
    ELSE IF buffer[i + 1] = LF
         THEN LET lf == IF (pos + i # size - 1) \/ st.linesFound > 0
                        THEN st.linesFound + 1 ELSE st.linesFound
              IN IF lf >= k
                 THEN [linesFound |-> lf, startReadPos |-> pos + i]
                 ELSE OnceScanChunk_OffByOne(buffer, i - 1, pos, size,
                                             [st EXCEPT !.linesFound = lf], k)
         ELSE OnceScanChunk_OffByOne(buffer, i - 1, pos, size, st, k)

\* for (let i = bytesRead - 1; i >= 0; i--) of readeofOnce, from index i down:
\* st is [linesFound, startReadPos], pos the offset the chunk was read at.
RECURSIVE OnceScanChunk(_, _, _, _, _, _)
OnceScanChunk(buffer, i, pos, size, st, k) ==
    IF i < 0 THEN st
    ELSE IF buffer[i + 1] = LF
         THEN LET lf == IF (pos + i # size - 1) \/ st.linesFound > 0
                        THEN st.linesFound + 1 ELSE st.linesFound
              IN IF lf >= k
                 THEN [linesFound |-> lf, startReadPos |-> pos + i + 1]
                 ELSE OnceScanChunk(buffer, i - 1, pos, size,
                                    [st EXCEPT !.linesFound = lf], k)
         ELSE OnceScanChunk(buffer, i - 1, pos, size, st, k)

\* Mutant: the start offset is not reset when the file has fewer lines.
OnceStartPos_NoReset(st, k) == st.startReadPos

\* if (linesFound < maxLines) startReadPos = 0
OnceStartPos(st, k) == IF st.linesFound < k THEN 0 ELSE st.startReadPos

\* The whole while loop of readeofOnce on a file that is not changing,
\* giving the start offset the final read uses.
RECURSIVE OnceScanLoop(_, _, _, _, _)
OnceScanLoop(f, pos, st, k, b) ==
    IF pos > 0 /\ st.linesFound < k
    THEN LET readLength == Min(b, pos)
             p == pos - readLength
             buffer == ReadAt(f, p, readLength)
         IN OnceScanLoop(f, p, OnceScanChunk(buffer, Len(buffer) - 1, p, Len(f), st, k), k, b)
    ELSE OnceStartPos(st, k)

\* readeofOnce as a function of an unchanging regular file.
OnceResult(f, k, b, enc) ==
    IF k <= 0 \/ Len(f) = 0 THEN <<>>
    ELSE LET s == OnceScanLoop(f, Len(f), [linesFound |-> 0, startReadPos |-> Len(f)], k, b)
         IN Decode(ZeroFilled(ReadAt(f, s, Len(f) - s), Len(f) - s), enc)

\* ------------------------------------------------------------------- state
VARIABLES
    pathKind,      \* what the path names
    file,          \* the bytes of the file at the path
    maxLines,      \* argument
    bufferSize,    \* argument
    encoding,      \* argument (options.encoding)
    pc,            \* where the call is
    fileHandle,    \* 0 for null, else the id of the handle the call holds
    openHandles,   \* ids of the handles that are open
    nextHandle,    \* id the next successful open returns
    statSize,      \* stat.size of the initial stat
    linesFound,
    position,      \* readeofOnce: scan position
    startReadPos,
    outcome,       \* "none", "return" or "throw": how the try block was left
    result,        \* text the one-shot call resolved with
    error,         \* error the call rejected with ("" for none)
    ioLog,         \* file-system calls issued so far (up to the watch loop)
    searchPosition,\* readeofStream: scan position of the initial read
    remainder,     \* readeofStream: unterminated text carried between polls
    curSize,       \* readeofStream: currentStat.size of the cycle
    pending,       \* lines the running for..of loop has still to yield
    emitted,       \* items the generator has yielded, in order
    suspended,     \* the generator is suspended at a yield
    aborted,       \* signal.aborted
    abortedAt,     \* where the call was when the signal was aborted ("" if not aborted,
                   \* "s_call" if it was aborted before the call)
    grown,         \* bytes appended so far
    truncs,        \* truncations so far
    fails,         \* injected watch-loop failures so far
    shrink         \* what the last stat of the watch loop found: whether the file had
                   \* shrunk below position and, if so, the remainder cleared for it,
                   \* the number of items emitted and of truncations by then

vars == <<pathKind, file, maxLines, bufferSize, encoding, pc, fileHandle, openHandles,
          nextHandle, statSize, linesFound, position, startReadPos, outcome,
          result, error, ioLog, searchPosition, remainder, curSize, pending,
          emitted, suspended, aborted, abortedAt, grown, truncs, fails, shrink>>

streamVars == <<searchPosition, remainder, curSize, pending, emitted, suspended,
                aborted, abortedAt, grown, truncs, fails, shrink>>

envVars == <<pathKind, file, maxLines, bufferSize, encoding>>
scanVars == <<statSize, linesFound, position, startReadPos>>
handleVars == <<fileHandle, openHandles, nextHandle>>

\* No shrinkage seen by the last stat.
NoShrink == [seen |-> FALSE, dropped |-> <<>>, mark |-> 0, truncs |-> 0]

\* The text of bytes in the encoding of the call.
Text(bs) == Decode(bs, encoding)

\* ------------------------------------------------------------ readeofOnce
InitOnce ==
    /\ pathKind \in PathKinds
    /\ file \in IF pathKind = "file" THEN ByteSeqs(MaxLen) ELSE {<<>>}
    /\ maxLines \in (-1)..MaxLines
    /\ bufferSize \in 1..MaxBuf
    /\ encoding \in Encodings
    /\ pc = "o_call"
    /\ fileHandle = 0
    /\ openHandles = {}
    /\ nextHandle = 1
    /\ statSize = 0
    /\ linesFound = 0
    /\ position = 0
    /\ startReadPos = 0
    /\ outcome = "none"
    /\ result = <<>>
    /\ error = ""
    /\ ioLog = <<>>
    /\ searchPosition = 0
    /\ remainder = <<>>
    /\ curSize = 0
    /\ pending = <<>>
    /\ emitted = <<>>
    /\ suspended = FALSE
    /\ aborted = FALSE
    /\ abortedAt = ""
    /\ grown = 0
    /\ truncs = 0
    /\ fails = 0
    /\ shrink = NoShrink

\* Mutant: the catch clause throws a new error in place of the one caught.
OnceThrow_Wrapped(e) ==
    /\ error' = "Error"
    /\ outcome' = "throw"
    /\ pc' = "o_finally"

\* Leaving the try block with an error: catch rethrows it, finally is next.
OnceThrow(e) ==
    /\ error' = e
    /\ outcome' = "throw"
    /\ pc' = "o_finally"

\* if (maxLines <= 0) return ''; otherwise open(filePath, 'r') is issued.
OnceCall ==
    /\ pc = "o_call"
    /\ IF maxLines <= 0
       THEN /\ pc' = "o_done"
            /\ outcome' = "return"
            /\ UNCHANGED ioLog
       ELSE /\ pc' = "o_open"
            /\ ioLog' = Append(ioLog, <<"open">>)
            /\ UNCHANGED outcome
    /\ UNCHANGED <<streamVars, envVars, handleVars, scanVars, result, error>>

\* await open(...): a regular file opens; a missing or invalid path does not;
\* a directory opens or not depending on the platform.
OnceOpen ==
    /\ pc = "o_open"
    /\ \E ok \in BOOLEAN :
        /\ ok => pathKind \in {"file", "dir"}
        /\ ~ok => pathKind # "file"
        /\ IF ok
           THEN /\ fileHandle' = nextHandle
                /\ openHandles' = openHandles \cup {nextHandle}
                /\ nextHandle' = nextHandle + 1
                /\ pc' = "o_stat"
                /\ ioLog' = Append(ioLog, <<"stat">>)
                /\ UNCHANGED <<outcome, error>>
           ELSE /\ OnceThrow(OpenError(pathKind))
                /\ UNCHANGED <<handleVars, ioLog>>
    /\ UNCHANGED <<streamVars, envVars, scanVars, result>>

\* Mutant: no early return for an empty file.
OnceStat_NoEmptyCheck ==
    /\ pc = "o_stat"
    /\ \/ \E size \in IF pathKind = "dir" THEN {0, 1} ELSE {Len(file)} :
            /\ statSize' = size
            /\ linesFound' = 0
            /\ position' = size
            /\ startReadPos' = size
            /\ pc' = "o_scan"
            /\ UNCHANGED <<outcome, error>>
       \/ /\ error' = "EIO"
          /\ outcome' = "throw"
          /\ pc' = "o_finally"
          /\ UNCHANGED scanVars
    /\ UNCHANGED <<streamVars, envVars, handleVars, result, ioLog>>

\* await fileHandle.stat(); if (stat.size === 0) return ''; loop variables.
OnceStat ==
    /\ pc = "o_stat"
    /\ \/ \E size \in IF pathKind = "dir" THEN {0, 1} ELSE {Len(file)} :
            /\ statSize' = size
            /\ linesFound' = 0
            /\ position' = size
            /\ startReadPos' = size
            /\ IF size = 0
               THEN /\ outcome' = "return"
                    /\ pc' = "o_finally"
               ELSE /\ pc' = "o_scan"
                    /\ UNCHANGED outcome
            /\ UNCHANGED error
       \/ /\ OnceThrow("EIO")
          /\ UNCHANGED scanVars
    /\ UNCHANGED <<streamVars, envVars, handleVars, result, ioLog>>

\* Mutant: the loop tests the position only, not the number of lines found.
OnceScan_IgnoresTarget ==
    /\ pc = "o_scan"
    /\ position > 0
    /\ LET readLength == Min(bufferSize, position)
           p == position - readLength
           buffer == ReadAt(file, p, readLength)
           st == OnceScanChunk(buffer, Len(buffer) - 1, p, statSize,
                               [linesFound |-> linesFound, startReadPos |-> startReadPos],
                               maxLines)
       IN /\ ioLog' = Append(ioLog, <<"read", p, readLength>>)
          /\ \/ /\ pathKind = "file"
                /\ position' = p
                /\ linesFound' = st.linesFound
                /\ startReadPos' = st.startReadPos
                /\ UNCHANGED <<pc, outcome, error>>
             \/ /\ OnceThrow(IF pathKind = "dir" THEN "EISDIR" ELSE "EIO")
                /\ position' = p
                /\ UNCHANGED <<linesFound, startReadPos>>
    /\ UNCHANGED <<streamVars, envVars, handleVars, statSize, result>>

\* One iteration of while (position > 0 && linesFound < maxLines).
OnceScan ==
    /\ pc = "o_scan"
    /\ position > 0 /\ linesFound < maxLines
    /\ LET readLength == Min(bufferSize, position)
           p == position - readLength
           buffer == ReadAt(file, p, readLength)
           st == OnceScanChunk(buffer, Len(buffer) - 1, p, statSize,
                               [linesFound |-> linesFound, startReadPos |-> startReadPos],
                               maxLines)
       IN /\ ioLog' = Append(ioLog, <<"read", p, readLength>>)
          /\ \/ /\ pathKind = "file"
                /\ position' = p
                /\ linesFound' = st.linesFound
                /\ startReadPos' = st.startReadPos
                /\ UNCHANGED <<pc, outcome, error>>
             \/ /\ OnceThrow(IF pathKind = "dir" THEN "EISDIR" ELSE "EIO")
                /\ position' = p
                /\ UNCHANGED <<linesFound, startReadPos>>
    /\ UNCHANGED <<streamVars, envVars, handleVars, statSize, result>>

\* After the loop: the start offset, then the read of [startReadPos, size)
\* and its decoding.
OnceRead ==
    /\ pc = "o_scan"
    /\ ~(position > 0 /\ linesFound < maxLines)
    /\ LET s == OnceStartPos([linesFound |-> linesFound, startReadPos |-> startReadPos],
                             maxLines)
           lengthToRead == statSize - s
       IN /\ startReadPos' = s
          /\ ioLog' = Append(ioLog, <<"read", s, lengthToRead>>)
          /\ \/ /\ pathKind = "file"
                /\ result' = Text(ZeroFilled(ReadAt(file, s, lengthToRead), lengthToRead))
                /\ outcome' = "return"
                /\ pc' = "o_finally"
                /\ UNCHANGED error
             \/ /\ OnceThrow(IF pathKind = "dir" THEN "EISDIR" ELSE "EIO")
                /\ UNCHANGED result
    /\ UNCHANGED <<streamVars, envVars, handleVars, statSize, linesFound, position>>

\* finally { if (fileHandle) await fileHandle.close(); }
OnceFinally ==
    /\ pc = "o_finally"
    /\ IF fileHandle # 0
       THEN /\ openHandles' = openHandles \ {fileHandle}
            /\ ioLog' = Append(ioLog, <<"close">>)
       ELSE UNCHANGED <<openHandles, ioLog>>
    /\ pc' = IF outcome = "return" THEN "o_done" ELSE "o_failed"
    /\ UNCHANGED <<streamVars, envVars, fileHandle, nextHandle, scanVars, outcome, result, error>>

NextOnce ==
    \/ OnceCall
    \/ OnceOpen
    \/ OnceStat
    \/ OnceScan
    \/ OnceRead
    \/ OnceFinally

SpecOnce == InitOnce /\ [][NextOnce]_vars

\* ---------------------------------------------------------- readeofStream
\* Mutant of the scan of readeofStream: the line feed at the final byte is
\* counted like any other.
RECURSIVE StreamScanChunk_CountsFinalLF(_, _, _, _, _, _)
StreamScanChunk_CountsFinalLF(buffer, i, pos, size, st, k) ==
    IF i < 0 THEN st
    ELSE IF buffer[i + 1] = LF
         THEN LET lf == st.linesFound + 1
              IN IF lf >= k
                 THEN [linesFound |-> lf, startReadPos |-> pos + i + 1]
                 ELSE StreamScanChunk_CountsFinalLF(buffer, i - 1, pos, size,
                                                    [st EXCEPT !.linesFound = lf], k)
         ELSE StreamScanChunk_CountsFinalLF(buffer, i - 1, pos, size, st, k)

\* for (let i = bytesRead - 1; i >= 0; i--) of readeofStream, from index i
\* down: st is [linesFound, startReadPos], pos the offset of the chunk.
RECURSIVE StreamScanChunk(_, _, _, _, _, _)
StreamScanChunk(buffer, i, pos, size, st, k) ==
    IF i < 0 THEN st
    ELSE IF buffer[i + 1] = LF
         THEN LET lf == IF (pos + i # size - 1) \/ st.linesFound > 0
                        THEN st.linesFound + 1 ELSE st.linesFound
              IN IF lf >= k
                 THEN [linesFound |-> lf, startReadPos |-> pos + i + 1]
                 ELSE StreamScanChunk(buffer, i - 1, pos, size,
                                      [st EXCEPT !.linesFound = lf], k)
         ELSE StreamScanChunk(buffer, i - 1, pos, size, st, k)

\* if (linesFound < maxLines) startReadPos = 0
StreamStartPos(st, k) == IF st.linesFound < k THEN 0 ELSE st.startReadPos

\* Mutant: Math.max in place of Math.min.
BytesToRead_Max(b, size, pos) == IF b > size - pos THEN b ELSE size - pos

\* Math.min(bufferSize, currentStat.size - position)
BytesToRead(b, size, pos) == Min(b, size - pos)

\* lines.pop() of the watch loop: the new remainder.
LastLine(ls) == ls[Len(ls)]

\* The lines left in `lines` after the pop, filtered by the yield loop.
CompleteLines(ls) == NonEmpty(SubSeq(ls, 1, Len(ls) - 1))

StreamPathKinds == {"file", "missing"}

\* Bytes of plain text.
TextBytes == {LF, 97}

\* The start of a streaming call on one of `files`, with maxLines in `ks`
\* and bufferSize in `bs`.
InitStreamWith(files, ks, bs, encs) ==
    /\ pathKind \in StreamPathKinds
    /\ file \in IF pathKind = "file" THEN files ELSE {<<>>}
    /\ maxLines \in ks
    /\ bufferSize \in bs
    /\ encoding \in encs
    /\ aborted \in BOOLEAN
    /\ abortedAt = IF aborted THEN "s_call" ELSE ""
    /\ pc = "s_call"
    /\ fileHandle = 0
    /\ openHandles = {}
    /\ nextHandle = 1
    /\ statSize = 0
    /\ linesFound = 0
    /\ position = 0
    /\ startReadPos = 0
    /\ outcome = "none"
    /\ result = <<>>
    /\ error = ""
    /\ ioLog = <<>>
    /\ searchPosition = 0
    /\ remainder = <<>>
    /\ curSize = 0
    /\ pending = <<>>
    /\ emitted = <<>>
    /\ suspended = FALSE
    /\ grown = 0
    /\ truncs = 0
    /\ fails = 0
    /\ shrink = NoShrink

\* An error leaves the outer try block: the finally clause is next.
StreamThrow(e) ==
    /\ error' = e
    /\ outcome' = "throw"
    /\ pc' = "s_finally"

\* Mutant: the remainder is dropped when the loop is left.
ExitLoop_NoFlush ==
    /\ outcome' = "return"
    /\ pc' = "s_finally"
    /\ UNCHANGED <<emitted, suspended>>

\* Leaving the while loop: if (remainder.length > 0) yield remainder, then
\* the finally clause.
ExitLoop ==
    IF Len(remainder) > 0
    THEN /\ emitted' = Append(emitted, remainder)
         /\ suspended' = TRUE
         /\ pc' = "s_flushed"
         /\ UNCHANGED outcome
    ELSE /\ outcome' = "return"
         /\ pc' = "s_finally"
         /\ UNCHANGED <<emitted, suspended>>

\* Mutant: the streaming call returns at once for maxLines <= 0, as the
\* one-shot call does.
StreamCall_ShortCircuit ==
    /\ pc = "s_call"
    /\ IF maxLines <= 0
       THEN /\ pc' = "s_finally"
            /\ outcome' = "return"
            /\ UNCHANGED ioLog
       ELSE /\ pc' = "s_open"
            /\ ioLog' = Append(ioLog, <<"open">>)
            /\ UNCHANGED outcome
    /\ UNCHANGED <<envVars, handleVars, scanVars, result, error, streamVars>>

\* The consumer's first next(): the body starts and open(filePath, 'r') is
\* issued, whatever maxLines is.
StreamCall ==
    /\ pc = "s_call"
    /\ pc' = "s_open"
    /\ ioLog' = Append(ioLog, <<"open">>)
    /\ UNCHANGED <<envVars, handleVars, scanVars, outcome, result, error, streamVars>>

\* await open(...)
StreamOpen ==
    /\ pc = "s_open"
    /\ IF pathKind = "file"
       THEN /\ fileHandle' = nextHandle
            /\ openHandles' = openHandles \cup {nextHandle}
            /\ nextHandle' = nextHandle + 1
            /\ pc' = "s_stat"
            /\ ioLog' = Append(ioLog, <<"stat">>)
            /\ UNCHANGED <<outcome, error>>
       ELSE /\ StreamThrow(OpenError(pathKind))
            /\ UNCHANGED <<handleVars, ioLog>>
    /\ UNCHANGED <<envVars, scanVars, result, streamVars>>

\* await fileHandle.stat(); the scan variables when there is something to
\* scan, otherwise straight to the yield loop with nothing to yield.
StreamStat ==
    /\ pc = "s_stat"
    /\ \/ /\ statSize' = Len(file)
          /\ IF Len(file) > 0 /\ maxLines > 0
             THEN /\ linesFound' = 0
                  /\ searchPosition' = Len(file)
                  /\ startReadPos' = Len(file)
                  /\ pc' = "s_scan"
             ELSE /\ pc' = "s_inityield"
                  /\ UNCHANGED <<linesFound, searchPosition, startReadPos>>
          /\ UNCHANGED <<outcome, error>>
       \/ /\ StreamThrow("EIO")
          /\ UNCHANGED <<statSize, linesFound, searchPosition, startReadPos>>
    /\ UNCHANGED <<envVars, handleVars, position, result, ioLog, remainder, curSize,
                   pending, emitted, suspended, aborted, abortedAt, grown, truncs, fails, shrink>>

\* One iteration of while (searchPosition > 0 && linesFound < maxLines).
StreamScan ==
    /\ pc = "s_scan"
    /\ searchPosition > 0 /\ linesFound < maxLines
    /\ LET readLength == Min(bufferSize, searchPosition)
           p == searchPosition - readLength
           buffer == ReadAt(file, p, readLength)
           st == StreamScanChunk(buffer, Len(buffer) - 1, p, statSize,
                                 [linesFound |-> linesFound, startReadPos |-> startReadPos],
                                 maxLines)
       IN /\ ioLog' = Append(ioLog, <<"read", p, readLength>>)
          /\ searchPosition' = p
          /\ \/ /\ linesFound' = st.linesFound
                /\ startReadPos' = st.startReadPos
                /\ UNCHANGED <<pc, outcome, error>>
             \/ /\ StreamThrow("EIO")
                /\ UNCHANGED <<linesFound, startReadPos>>
    /\ UNCHANGED <<envVars, handleVars, statSize, position, result, remainder, curSize,
                   pending, emitted, suspended, aborted, abortedAt, grown, truncs, fails, shrink>>

\* After the scan: the start offset, the read of [startReadPos, size), its
\* decoding and split; the non-empty lines are what the loop will yield.
StreamInitialRead ==
    /\ pc = "s_scan"
    /\ ~(searchPosition > 0 /\ linesFound < maxLines)
    /\ LET s == StreamStartPos([linesFound |-> linesFound, startReadPos |-> startReadPos],
                               maxLines)
           lengthToRead == statSize - s
           content == Text(ZeroFilled(ReadAt(file, s, lengthToRead), lengthToRead))
       IN /\ startReadPos' = s
          /\ ioLog' = Append(ioLog, <<"read", s, lengthToRead>>)
          /\ \/ /\ result' = content
                /\ pending' = NonEmpty(Split(content))
                /\ pc' = "s_inityield"
                /\ UNCHANGED <<outcome, error>>
             \/ /\ StreamThrow("EIO")
                /\ UNCHANGED <<result, pending>>
    /\ UNCHANGED <<envVars, handleVars, statSize, linesFound, position, searchPosition,
                   remainder, curSize, emitted, suspended, aborted, abortedAt, grown, truncs,
                   fails, shrink>>

\* yield line: the next line goes to the consumer and the generator is
\* suspended until the consumer asks again.
StreamYield ==
    /\ pc \in {"s_inityield", "s_wyield"}
    /\ ~suspended
    /\ Len(pending) > 0
    /\ emitted' = Append(emitted, Head(pending))
    /\ pending' = Tail(pending)
    /\ suspended' = TRUE
    /\ UNCHANGED <<envVars, handleVars, scanVars, pc, outcome, result, error, ioLog,
                   searchPosition, remainder, curSize, aborted, abortedAt, grown, truncs,
                   fails, shrink>>

\* The consumer calls next(): the generator resumes after the yield.
ConsumerNext ==
    /\ suspended
    /\ suspended' = FALSE
    /\ UNCHANGED <<envVars, handleVars, scanVars, pc, outcome, result, error, ioLog,
                   searchPosition, remainder, curSize, pending, emitted, aborted, abortedAt,
                   grown, truncs, fails, shrink>>

\* The consumer calls return() (a break out of for await): the generator
\* leaves the yield through the finally clause.
ConsumerReturn ==
    /\ suspended
    /\ suspended' = FALSE
    /\ outcome' = "returned"
    /\ pc' = "s_finally"
    /\ UNCHANGED <<envVars, handleVars, scanVars, result, error, ioLog, searchPosition,
                   remainder, curSize, pending, emitted, aborted, abortedAt, grown, truncs,
                   fails, shrink>>

\* Mutant: the first cycle is started without a test of the signal.
StreamEnterWatch_NoFirstTest ==
    /\ pc = "s_inityield"
    /\ ~suspended
    /\ Len(pending) = 0
    /\ position' = statSize
    /\ pc' = "s_wstat"
    /\ UNCHANGED <<envVars, handleVars, statSize, linesFound, startReadPos, outcome,
                   result, error, ioLog, searchPosition, remainder, curSize, pending,
                   emitted, suspended, aborted, abortedAt, grown, truncs, fails, shrink>>

\* Mutant: the unterminated last line of the initial read is also kept as
\* the remainder of the watch loop.
StreamEnterWatch_KeepsPartial ==
    /\ pc = "s_inityield"
    /\ ~suspended
    /\ Len(pending) = 0
    /\ position' = statSize
    /\ remainder' = IF Len(result) > 0 THEN LastLine(Split(result)) ELSE remainder
    /\ IF aborted
       THEN ExitLoop
       ELSE /\ pc' = "s_wstat"
            /\ UNCHANGED <<outcome, emitted, suspended>>
    /\ UNCHANGED <<envVars, handleVars, statSize, linesFound, startReadPos, result, error,
                   ioLog, searchPosition, curSize, pending, aborted, abortedAt,
                   grown, truncs, fails, shrink>>

\* End of the initial yield loop: position = stat.size, then the first test
\* of while (!signal?.aborted) and the first stat of the watch loop.
StreamEnterWatch ==
    /\ pc = "s_inityield"
    /\ ~suspended
    /\ Len(pending) = 0
    /\ position' = statSize
    /\ IF aborted
       THEN ExitLoop
       ELSE /\ pc' = "s_wstat"
            /\ UNCHANGED <<outcome, emitted, suspended>>
    /\ UNCHANGED <<envVars, handleVars, statSize, linesFound, startReadPos, result, error,
                   ioLog, searchPosition, remainder, curSize, pending, aborted, abortedAt,
                   grown, truncs, fails, shrink>>

\* Mutant: a cycle that finds the file shrunk goes to the poll wait.
StreamWatchStat_WaitAfterShrink ==
    /\ pc = "s_wstat"
    /\ LET size == Len(file)
           p0 == IF size < position THEN 0 ELSE position
           r0 == IF size < position THEN <<>> ELSE remainder
       IN /\ curSize' = size
          /\ position' = p0
          /\ remainder' = r0
          /\ pc' = IF size > p0 /\ ~(size < position) THEN "s_wread" ELSE "s_wait"
          /\ shrink' = IF size < position
                       THEN [seen |-> TRUE, dropped |-> remainder,
                             mark |-> Len(emitted), truncs |-> truncs]
                       ELSE NoShrink
    /\ UNCHANGED <<envVars, handleVars, statSize, linesFound, startReadPos, outcome,
                   result, error, ioLog, searchPosition, pending, emitted, suspended,
                   aborted, abortedAt, grown, truncs, fails>>

\* Mutant: shrinkage resets the position but keeps the remainder.
StreamWatchStat_KeepRemainder ==
    /\ pc = "s_wstat"
    /\ LET size == Len(file)
           p0 == IF size < position THEN 0 ELSE position
       IN /\ curSize' = size
          /\ position' = p0
          /\ pc' = IF size > p0 THEN "s_wread" ELSE "s_wait"
          /\ shrink' = IF size < position
                       THEN [seen |-> TRUE, dropped |-> remainder,
                             mark |-> Len(emitted), truncs |-> truncs]
                       ELSE NoShrink
    /\ UNCHANGED <<envVars, handleVars, statSize, linesFound, startReadPos, outcome,
                   result, error, ioLog, searchPosition, remainder, pending, emitted,
                   suspended, aborted, abortedAt, grown, truncs, fails>>

\* await fileHandle.stat() of a cycle: the truncation test, then either the
\* read of new content is issued or the poll wait starts.
StreamWatchStat ==
    /\ pc = "s_wstat"
    /\ LET size == Len(file)
           p0 == IF size < position THEN 0 ELSE position
           r0 == IF size < position THEN <<>> ELSE remainder
       IN /\ curSize' = size
          /\ position' = p0
          /\ remainder' = r0
          /\ pc' = IF size > p0 THEN "s_wread" ELSE "s_wait"
          /\ shrink' = IF size < position
                       THEN [seen |-> TRUE, dropped |-> remainder,
                             mark |-> Len(emitted), truncs |-> truncs]
                       ELSE NoShrink
    /\ UNCHANGED <<envVars, handleVars, statSize, linesFound, startReadPos, outcome,
                   result, error, ioLog, searchPosition, pending, emitted, suspended,
                   aborted, abortedAt, grown, truncs, fails>>

\* Mutant: the position advances by the number of bytes asked for.
StreamWatchRead_AdvancesByRequest ==
    /\ pc = "s_wread"
    /\ LET buf == ReadAt(file, position, BytesToRead(bufferSize, curSize, position))
           lines == Split(remainder \o Text(buf))
       IN /\ position' = position + BytesToRead(bufferSize, curSize, position)
          /\ remainder' = LastLine(lines)
          /\ pending' = CompleteLines(lines)
          /\ pc' = "s_wyield"
    /\ UNCHANGED <<envVars, handleVars, statSize, linesFound, startReadPos, outcome,
                   result, error, ioLog, searchPosition, curSize, emitted, suspended,
                   aborted, abortedAt, grown, truncs, fails, shrink>>

\* await fileHandle.read(streamBuffer, 0, bytesToRead, position) and the
\* processing of what it returned.
StreamWatchRead ==
    /\ pc = "s_wread"
    /\ LET buf == ReadAt(file, position, BytesToRead(bufferSize, curSize, position))
           bytesRead == Len(buf)
           lines == Split(remainder \o Text(buf))
       IN IF bytesRead > 0
          THEN /\ position' = position + bytesRead
               /\ remainder' = LastLine(lines)
               /\ pending' = CompleteLines(lines)
               /\ pc' = "s_wyield"
          ELSE /\ pc' = "s_wait"
               /\ UNCHANGED <<position, remainder, pending>>
    /\ UNCHANGED <<envVars, handleVars, statSize, linesFound, startReadPos, outcome,
                   result, error, ioLog, searchPosition, curSize, emitted, suspended,
                   aborted, abortedAt, grown, truncs, fails, shrink>>

\* The stat or the read of a cycle rejects instead (an I/O error): control
\* goes to the catch clause of the loop body.
StreamWatchFail ==
    /\ pc \in {"s_wstat", "s_wread"}
    /\ truncs + fails < MaxFaults
    /\ fails' = fails + 1
    /\ error' = "EIO"
    /\ pc' = "s_catch"
    /\ UNCHANGED <<envVars, handleVars, scanVars, outcome, result, ioLog, searchPosition,
                   remainder, curSize, pending, emitted, suspended, aborted, abortedAt, grown,
                   truncs, shrink>>

\* End of the yield loop of a cycle: the poll wait starts (setTimeout and the
\* abort listener).
StreamStartWait ==
    /\ pc = "s_wyield"
    /\ ~suspended
    /\ Len(pending) = 0
    /\ pc' = "s_wait"
    /\ UNCHANGED <<envVars, handleVars, scanVars, outcome, result, error, ioLog,
                   streamVars>>

\* Mutant: the loop goes round without testing the signal.
StreamTimer_NoLoopTest ==
    /\ pc = "s_wait"
    /\ pc' = "s_wstat"
    /\ UNCHANGED <<envVars, handleVars, scanVars, outcome, result, error, ioLog,
                   streamVars>>

\* The timer fires: the wait resolves, the loop condition is tested and the
\* next cycle's stat is issued.
StreamTimer ==
    /\ pc = "s_wait"
    /\ IF aborted
       THEN ExitLoop
       ELSE /\ pc' = "s_wstat"
            /\ UNCHANGED <<outcome, emitted, suspended>>
    /\ UNCHANGED <<envVars, handleVars, scanVars, result, error, ioLog, searchPosition,
                   remainder, curSize, pending, aborted, abortedAt, grown, truncs, fails, shrink>>

\* Where the call can be when controller.abort() runs: at any await of the
\* body, at a yield, or in the poll wait.
AbortPoints ==
    {"s_open", "s_stat", "s_scan", "s_inityield", "s_wstat", "s_wread", "s_wyield",
     "s_wait", "s_catch", "s_close", "s_reopen", "s_finally"}

\* Mutant: the listener does not reject the wait.
Abort_FlagOnly ==
    /\ ~aborted
    /\ pc \in AbortPoints
    /\ aborted' = TRUE
    /\ abortedAt' = pc
    /\ UNCHANGED <<envVars, handleVars, scanVars, pc, error, outcome, result, ioLog,
                   searchPosition, remainder, curSize, pending, emitted, suspended,
                   grown, truncs, fails, shrink>>

\* controller.abort(): signal.aborted becomes true; a poll wait that is
\* pending has its listener run, which clears the timer and rejects the wait.
Abort ==
    /\ ~aborted
    /\ pc \in AbortPoints
    /\ aborted' = TRUE
    /\ abortedAt' = pc
    /\ IF pc = "s_wait"
       THEN /\ pc' = "s_catch"
            /\ error' = "Aborted"
       ELSE UNCHANGED <<pc, error>>
    /\ UNCHANGED <<envVars, handleVars, scanVars, outcome, result, ioLog, searchPosition,
                   remainder, curSize, pending, emitted, suspended, grown, truncs,
                   fails, shrink>>

\* Mutant: the catch clause starts the recovery whatever the signal says.
StreamCatch_AlwaysReopen ==
    /\ pc = "s_catch"
    /\ pc' = "s_close"
    /\ UNCHANGED <<envVars, handleVars, scanVars, outcome, result, error, ioLog,
                   streamVars>>

\* catch (error): break when the signal is aborted, otherwise
\* fileHandle.close() is issued.
StreamCatch ==
    /\ pc = "s_catch"
    /\ IF aborted
       THEN ExitLoop
       ELSE /\ pc' = "s_close"
            /\ UNCHANGED <<outcome, emitted, suspended>>
    /\ UNCHANGED <<envVars, handleVars, scanVars, result, error, ioLog,
                   searchPosition, remainder, curSize, pending, aborted, abortedAt, grown,
                   truncs, fails, shrink>>

\* await fileHandle.close() of the recovery: the handle is closed and the
\* reopen is issued, or the close rejects and the caught error is thrown
\* (whether a close that rejects has released the handle depends on the
\* failure; the finally clause closes it again).
StreamClose ==
    /\ pc = "s_close"
    /\ \/ /\ openHandles' = openHandles \ {fileHandle}
          /\ pc' = "s_reopen"
          /\ UNCHANGED outcome
       \/ /\ openHandles' \in {openHandles, openHandles \ {fileHandle}}
          /\ outcome' = "throw"
          /\ pc' = "s_finally"
    /\ UNCHANGED <<envVars, fileHandle, nextHandle, scanVars, result, error, ioLog,
                   streamVars>>

\* Mutant: the reopened file is read from where the old one was left.
StreamReopen_KeepPosition ==
    /\ pc = "s_reopen"
    /\ \/ /\ fileHandle' = nextHandle
          /\ openHandles' = openHandles \cup {nextHandle}
          /\ nextHandle' = nextHandle + 1
          /\ IF aborted
             THEN ExitLoop
             ELSE /\ pc' = "s_wstat"
                  /\ UNCHANGED <<outcome, emitted, suspended>>
          /\ UNCHANGED pathKind
       \/ /\ pathKind' = "missing"
          /\ outcome' = "throw"
          /\ pc' = "s_finally"
          /\ UNCHANGED <<handleVars, emitted, suspended>>
    /\ UNCHANGED <<file, maxLines, bufferSize, encoding, statSize, linesFound, position,
                   startReadPos, result, error, ioLog, searchPosition, remainder,
                   curSize, pending, aborted, abortedAt, grown, truncs, fails, shrink>>

\* fileHandle = await open(filePath, 'r'); position = 0; remainder = '';
\* then the loop condition.  When the path is gone the open fails and the
\* error that was caught is thrown.
StreamReopen ==
    /\ pc = "s_reopen"
    /\ \/ /\ fileHandle' = nextHandle
          /\ openHandles' = openHandles \cup {nextHandle}
          /\ nextHandle' = nextHandle + 1
          /\ position' = 0
          /\ remainder' = <<>>
          /\ IF aborted
             THEN /\ outcome' = "return"
                  /\ pc' = "s_finally"
             ELSE /\ pc' = "s_wstat"
                  /\ UNCHANGED outcome
          /\ UNCHANGED pathKind
       \/ /\ pathKind' = "missing"
          /\ outcome' = "throw"
          /\ pc' = "s_finally"
          /\ UNCHANGED <<handleVars, position, remainder>>
    /\ UNCHANGED <<file, maxLines, bufferSize, encoding, statSize, linesFound, startReadPos,
                   result, error, ioLog, searchPosition, curSize, pending, emitted,
                   suspended, aborted, abortedAt, grown, truncs, fails, shrink>>

\* The consumer asks for the item after the flushed remainder: the
\* generator body ends.
StreamAfterFlush ==
    /\ pc = "s_flushed"
    /\ ~suspended
    /\ outcome' = "return"
    /\ pc' = "s_finally"
    /\ UNCHANGED <<envVars, handleVars, scanVars, result, error, ioLog, streamVars>>

\* Mutant: the handle is closed on normal termination only.
StreamFinally_LeakOnError ==
    /\ pc = "s_finally"
    /\ IF fileHandle # 0 /\ outcome = "return"
       THEN openHandles' = openHandles \ {fileHandle}
       ELSE UNCHANGED openHandles
    /\ pc' = CASE outcome = "return" -> "s_done"
               [] outcome = "returned" -> "s_returned"
               [] OTHER -> "s_failed"
    /\ UNCHANGED <<envVars, fileHandle, nextHandle, scanVars, outcome, result, error,
                   ioLog, streamVars>>

\* finally { if (fileHandle) await fileHandle.close(); }
StreamFinally ==
    /\ pc = "s_finally"
    /\ IF fileHandle # 0
       THEN openHandles' = openHandles \ {fileHandle}
       ELSE UNCHANGED openHandles
    /\ pc' = CASE outcome = "return" -> "s_done"
               [] outcome = "returned" -> "s_returned"
               [] OTHER -> "s_failed"
    /\ UNCHANGED <<envVars, fileHandle, nextHandle, scanVars, outcome, result, error,
                   ioLog, streamVars>>

\* ------------------------------------------------- the file's other users
\* A cycle's stat is next: the poll wait, the end of the initial yield loop
\* before the first cycle, or the close and the open of the recovery from a
\* failed stat or read (after the open the loop goes to its stat in the same
\* turn).
BeforeStat ==
    \/ pc = "s_wait"
    \/ pc = "s_inityield" /\ ~suspended /\ Len(pending) = 0
    \/ pc \in {"s_close", "s_reopen"}

\* A read of the scan or of the final read, or a stat or a read of a cycle,
\* is in flight.  What other users do to the file reaches the call through
\* its next stat or read only, so their steps are taken while that stat or
\* read is in flight (or when a cycle's stat is next).  A change before the
\* first stat has returned is a call on the changed file, which Init gives.
IoInFlight == pc \in {"o_scan", "s_scan", "s_wstat", "s_wread"}

\* A writer appends bytes of the set B to the file, at most maxGrow in all.
\* While the file has only grown the call sees the new bytes through the
\* next stat of a cycle and not before (every read ends at the size a stat
\* returned), so the append is taken just before that stat; once the file
\* has been cut a read can see them too.
FileAppend(B, maxGrow) ==
    /\ pathKind = "file"
    /\ BeforeStat \/ (truncs > 0 /\ IoInFlight)
    /\ \E n \in 1..(maxGrow - grown) : \E bs \in [1..n -> B] :
        /\ file' = file \o bs
        /\ grown' = grown + n
    /\ UNCHANGED <<pathKind, maxLines, bufferSize, encoding, handleVars, scanVars, pc, outcome,
                   result, error, ioLog, searchPosition, remainder, curSize, pending,
                   emitted, suspended, aborted, abortedAt, truncs, fails, shrink>>

\* The file is cut to a shorter length (a rotation in place, or a writer
\* that truncates).
FileTruncate ==
    /\ pathKind = "file"
    /\ BeforeStat \/ IoInFlight
    /\ truncs + fails < MaxFaults
    /\ \E n \in 0..(Len(file) - 1) : file' = SubSeq(file, 1, n)
    /\ truncs' = truncs + 1
    /\ UNCHANGED <<pathKind, maxLines, bufferSize, encoding, handleVars, scanVars, pc, outcome,
                   result, error, ioLog, searchPosition, remainder, curSize, pending,
                   emitted, suspended, aborted, abortedAt, grown, fails, shrink>>

\* The streaming call on a file of arbitrary bytes that only grows, with a
\* consumer that takes every item, no I/O error in the watch loop and no
\* cancellation after the call has started.
NextGrow ==
    \/ StreamCall
    \/ StreamOpen
    \/ StreamStat
    \/ StreamScan
    \/ StreamInitialRead
    \/ StreamYield
    \/ ConsumerNext
    \/ StreamEnterWatch
    \/ StreamWatchStat
    \/ StreamWatchRead
    \/ StreamStartWait
    \/ StreamTimer
    \/ StreamFinally
    \/ FileAppend(Bytes, MaxGrow)

\* A file of at most MaxInit bytes has at most MaxInit lines, and at most
\* MaxGrow bytes are appended to it, so maxLines up to MaxInit and bufferSize
\* up to MaxGrow give every case.
InitGrow == InitStreamWith(ByteSeqs(MaxInit), 0..MaxInit, 1..MaxGrow, Encodings)

SpecGrow == InitGrow /\ [][NextGrow]_vars

\* The streaming call on a text file with everything that can happen to it:
\* appends, truncations, I/O errors, cancellation at any point and a consumer
\* that may stop early.
NextStream ==
    \/ StreamCall
    \/ StreamOpen
    \/ StreamStat
    \/ StreamScan
    \/ StreamInitialRead
    \/ StreamYield
    \/ ConsumerNext
    \/ ConsumerReturn
    \/ StreamEnterWatch
    \/ StreamWatchStat
    \/ StreamWatchRead
    \/ StreamWatchFail
    \/ StreamStartWait
    \/ StreamTimer
    \/ Abort
    \/ StreamCatch
    \/ StreamClose
    \/ StreamReopen
    \/ StreamAfterFlush
    \/ StreamFinally
    \/ FileAppend(TextBytes, MaxText)
    \/ FileTruncate

InitStream ==
    InitStreamWith(UNION {[1..m -> TextBytes] : m \in 0..MaxInit}, 0..MaxInit, 1..MaxText,
                   {"utf8"})

SpecStream == InitStream /\ [][NextStream]_vars

\* The steps of the generator body: each is a continuation the event loop
\* runs once its await has settled or its timer has fired.
GeneratorStep ==
    \/ StreamCall
    \/ StreamOpen
    \/ StreamStat
    \/ StreamScan
    \/ StreamInitialRead
    \/ StreamYield
    \/ StreamEnterWatch
    \/ StreamWatchStat
    \/ StreamWatchRead
    \/ StreamStartWait
    \/ StreamTimer
    \/ StreamCatch
    \/ StreamClose
    \/ StreamReopen
    \/ StreamAfterFlush
    \/ StreamFinally

\* The streaming call on a text file that only grows, with cancellation at
\* any point and a consumer that takes every item.
NextCancel ==
    \/ StreamCall
    \/ StreamOpen
    \/ StreamStat
    \/ StreamScan
    \/ StreamInitialRead
    \/ StreamYield
    \/ ConsumerNext
    \/ StreamEnterWatch
    \/ StreamWatchStat
    \/ StreamWatchRead
    \/ StreamStartWait
    \/ StreamTimer
    \/ Abort
    \/ StreamCatch
    \/ StreamAfterFlush
    \/ StreamFinally
    \/ FileAppend(TextBytes, MaxText)

\* The event loop keeps running the generator (every await that has settled
\* and every timer that has fired is followed by its continuation) and the
\* consumer answers each item with next().
SpecCancel ==
    InitStream /\ [][NextCancel]_vars /\ WF_vars(GeneratorStep) /\ WF_vars(ConsumerNext)

\* The initial read of the streaming call alone, on the files of the
\* one-shot specification: from the call to the first stat of the watch loop.
InitInitial == InitStreamWith(ByteSeqs(MaxLen), (-1)..MaxLines, 1..MaxBuf, Encodings)

NextInitial ==
    \/ StreamCall
    \/ StreamOpen
    \/ StreamStat
    \/ StreamScan
    \/ StreamInitialRead
    \/ StreamYield
    \/ ConsumerNext
    \/ StreamEnterWatch

SpecInitial == InitInitial /\ [][NextInitial]_vars

\* The two scans: the one-shot call and the initial read of the streaming call.
SpecScan == (InitOnce \/ InitInitial) /\ [][NextOnce \/ NextInitial]_vars

\* Both entry points of readeof().
Init == InitOnce \/ InitStream

Next == NextOnce \/ NextStream

Spec == Init /\ [][Next]_vars

\* ------------------------------------------------- what "the last k lines" is
HasFinalLF(s) == Len(s) > 0 /\ s[Len(s)] = LF

\* The text with one line feed at the final position set aside.
Body(s) == IF HasFinalLF(s) THEN SubSeq(s, 1, Len(s) - 1) ELSE s

LastK(ls, k) == IF Len(ls) <= k THEN ls ELSE SubSeq(ls, Len(ls) - k + 1, Len(ls))

RECURSIVE Join(_)
Join(ls) ==
    IF Len(ls) = 0 THEN <<>>
    ELSE IF Len(ls) = 1 THEN ls[1]
         ELSE ls[1] \o <<LF>> \o Join(Tail(ls))

NumLines(s) == Len(Split(Body(s)))

LastLines(s, k) ==
    Join(LastK(Split(Body(s)), k)) \o (IF HasFinalLF(s) THEN <<LF>> ELSE <<>>)

IsRead(op) == op[1] = "read"
Opens(log) == Cardinality({i \in 1..Len(log) : log[i] = <<"open">>})

\* ------------------------------------------------------------------ claims

\* C1: for every file content, every k >= 1 and every bufferSize >= 1 the
\* one-shot read resolves with the last k lines of the file: the last k
\* segments of the content split on line feed (one final line feed set
\* aside), joined by line feeds, followed by the final line feed if any.
C1_LastKLines ==
    (pc = "o_done" /\ pathKind = "file" /\ maxLines >= 1)
        => result = LastLines(Text(file), maxLines)

C1_Witness ==
    /\ pc = "o_done" /\ pathKind = "file"
    /\ maxLines = 2 /\ bufferSize = 1
    /\ Len(file) = 4 /\ HasFinalLF(file)
    /\ NumLines(Text(file)) = 3
    /\ result = LastLines(Text(file), 2)
    /\ result # Text(file)

\* C2: when k is at least the number of lines of the file the one-shot read
\* resolves (no error) with the whole content, read from start offset 0.
C2_WholeFile ==
    (pc = "o_done" /\ pathKind = "file" /\ maxLines >= 1
        /\ maxLines >= NumLines(Text(file)))
        => (result = Text(file) /\ startReadPos = 0 /\ error = "")

C2_Witness ==
    /\ pc = "o_done" /\ pathKind = "file"
    /\ Len(file) >= 3 /\ HasFinalLF(file)
    /\ NumLines(Text(file)) = 2 /\ maxLines = 2
    /\ result = Text(file)
    /\ \E i \in 1..Len(ioLog) : IsRead(ioLog[i]) /\ ioLog[i][2] = 0 /\ ioLog[i][3] = Len(file)

\* C3: the one-shot read resolves with empty text and no error whenever
\* maxLines <= 0 (whatever the path names) or the stat reports size 0; in both
\* cases the scan does not run and no read is issued.
C3_EmptyShortCircuit ==
    /\ (maxLines <= 0 /\ pc # "o_call")
          => (pc = "o_done" /\ result = <<>> /\ error = "" /\ ioLog = <<>>)
    /\ (maxLines >= 1 /\ statSize = 0 /\ pc \notin {"o_call", "o_open", "o_stat"}
          /\ fileHandle # 0 /\ error = "")
          => /\ pc \in {"o_finally", "o_done"}
             /\ outcome = "return"
             /\ result = <<>>
             /\ \A i \in 1..Len(ioLog) : ~IsRead(ioLog[i])

C3_Witness ==
    /\ pc = "o_done" /\ pathKind = "file" /\ file = <<>> /\ maxLines = 2
    /\ result = <<>> /\ ioLog = << <<"open">>, <<"stat">>, <<"close">> >>

C3_WitnessZero ==
    /\ pc = "o_done" /\ pathKind = "file" /\ Len(file) = 3 /\ maxLines = 0
    /\ result = <<>>

\* C4: for a fixed file and k the one-shot result is the same for every
\* bufferSize >= 1, from 1 byte to more than the file size.
C4_BufferSizeInvariant ==
    (pc = "o_done" /\ pathKind = "file")
        => \A b \in 1..(Len(file) + 1) :
              /\ OnceResult(file, maxLines, b, encoding) = result
              /\ (maxLines >= 1 /\ Len(file) > 0)
                    => OnceScanLoop(file, Len(file),
                                    [linesFound |-> 0, startReadPos |-> Len(file)],
                                    maxLines, b) = startReadPos

C4_Witness ==
    /\ pc = "o_done" /\ pathKind = "file"
    /\ bufferSize = 2 /\ Len(file) = 4 /\ maxLines = 1
    /\ file[2] = LF /\ file[4] = LF
    /\ result = Text(SubSeq(file, 3, 4))
    /\ OnceResult(file, maxLines, 1, encoding) = result
    /\ OnceResult(file, maxLines, 5, encoding) = result

\* C6 (as stated): the one-shot read opens the file as its first step, so for
\* a path that is missing or invalid the call is rejected with the open error
\* for every value of maxLines.
C6_OpenFirstForEveryMaxLines ==
    /\ pc # "o_call" => (ioLog # <<>> /\ ioLog[1] = <<"open">>)
    /\ (pathKind \in {"missing", "invalid"} /\ pc \in {"o_done", "o_failed"})
          => (pc = "o_failed" /\ error = OpenError(pathKind))

\* C6 (amended): for maxLines >= 1 the open is the first step, it is issued
\* once, and when it fails the call is rejected with the open error
\* unmodified; for maxLines <= 0 the call resolves with empty text before
\* any open, also for a path that cannot be opened.
C6_OpenFirstWhenPositive ==
    /\ (maxLines >= 1 /\ pc # "o_call")
          => (ioLog # <<>> /\ ioLog[1] = <<"open">> /\ Opens(ioLog) = 1)
    /\ (maxLines >= 1 /\ pathKind \in {"missing", "invalid"} /\ pc \in {"o_done", "o_failed"})
          => (pc = "o_failed" /\ fileHandle = 0)
    /\ (pc = "o_failed" /\ fileHandle = 0)
          => (error = OpenError(pathKind) /\ ioLog = << <<"open">> >>)
    /\ (maxLines <= 0 /\ pc # "o_call")
          => (pc = "o_done" /\ result = <<>> /\ Opens(ioLog) = 0)

C6_Witness ==
    /\ pc = "o_failed" /\ pathKind = "missing" /\ maxLines = 1
    /\ error = "ENOENT" /\ ioLog = << <<"open">> >>

C6_WitnessZero ==
    /\ pc = "o_done" /\ pathKind = "missing" /\ maxLines = 0 /\ result = <<>>

\* C5: in both scans the start offset stays within 0..fileSize at every step;
\* once computed it is 0 or the offset just after a line feed, and the text
\* is the decoding of exactly the bytes [startReadPos, fileSize): a suffix of
\* the file, untrimmed, ending in a line feed exactly when the file does.
C5_StartOffsetAndSuffix ==
    /\ 0 <= startReadPos /\ startReadPos <= statSize
    /\ ( /\ pathKind = "file" /\ statSize > 0 /\ maxLines > 0
         /\ \/ pc \in {"o_finally", "o_done"} /\ outcome = "return"
            \/ pc \in {"s_inityield", "s_wstat"} )
       => /\ startReadPos = 0 \/ file[startReadPos] = LF
          /\ result = Text(SubSeq(file, startReadPos + 1, statSize))
          /\ statSize = Len(file)
          /\ HasFinalLF(result) <=> HasFinalLF(file)

C5_Witness ==
    /\ pc = "s_inityield" /\ pathKind = "file"
    /\ Len(file) = 4 /\ file[4] = LF /\ file[2] = LF /\ file[3] = 195
    /\ maxLines = 1 /\ startReadPos = 2
    /\ result = <<65533, LF>>

\* C7: a call holds at most one open handle at any time, the one its
\* fileHandle variable names, and none is open once the call has completed,
\* on whatever path it completed (return, failure, cancellation, failed
\* reopen, consumer stopping early).
C7_HandlesReleased ==
    /\ Cardinality(openHandles) <= 1
    /\ openHandles \subseteq {fileHandle}
    /\ pc \in {"o_done", "o_failed", "s_done", "s_failed", "s_returned"}
          => openHandles = {}

C7_Witness ==
    /\ pc = "s_failed" /\ pathKind = "missing"
    /\ fileHandle = 1 /\ nextHandle = 2 /\ fails = 1
    /\ openHandles = {}

\* C8: the items of the initial read of the streaming call are the non-empty
\* segments of the one-shot result for the same file and arguments, in order;
\* they have all been yielded when the yield loop is left, and the watch
\* position then is the size the initial stat saw.
C8_InitialItemsAreOnceResult ==
    [][ /\ (pc = "s_inityield" /\ pathKind = "file")
            => emitted \o pending = NonEmpty(Split(OnceResult(file, maxLines, bufferSize, encoding)))
        /\ (pc = "s_inityield" /\ pc' # "s_inityield")
            => /\ emitted' = NonEmpty(Split(OnceResult(file, maxLines, bufferSize, encoding)))
               /\ position' = statSize
               /\ statSize = Len(file)
               /\ pc' = "s_wstat" \/ aborted
      ]_vars

C8_Witness ==
    /\ pc = "s_wstat" /\ pathKind = "file"
    /\ Len(file) = 4 /\ maxLines = 2 /\ bufferSize = 1
    /\ emitted = << <<97>>, <<233>> >>
    /\ position = 4

\* The non-empty complete (line-feed terminated) lines of a text.
TerminatedLines(s) == CompleteLines(Split(s))

\* C9 (as stated): while the file only grows and ended in a line feed at the
\* initial read, the items yielded after the initial read are exactly the
\* non-empty terminated lines of the appended bytes consumed so far, in
\* order, each once.
C9_AppendedLinesExactlyOnce ==
    ( /\ pathKind = "file" /\ pc \in {"s_wstat", "s_wread", "s_wait"}
      /\ statSize > 0 /\ file[statSize] = LF )
    => LET init == Len(NonEmpty(Split(result)))
       IN /\ Len(emitted) >= init
          /\ SubSeq(emitted, init + 1, Len(emitted))
                = TerminatedLines(Text(SubSeq(file, statSize + 1, position)))

\* C10 (as stated): when a cycle's wait starts, no complete line that the
\* cycle's stat saw is left unread, whatever the size of what was appended.
C10_AllLinesInNextCycle ==
    (pathKind = "file" /\ pc = "s_wait")
        => \A i \in (position + 1)..curSize : file[i] # LF

\* C10 (amended): the read of a cycle consumes min(bufferSize, unread bytes);
\* when the stat finds at most bufferSize unread bytes the read consumes them
\* all and every line they complete is yielded before the cycle's wait
\* starts; with more unread bytes the position stops short of the size seen
\* and the rest is left to later cycles.
C10_OneBufferPerCycle ==
    [][ /\ (pc = "s_wread" /\ pc' # "s_wread")
            => LET delta == curSize - position
               IN /\ position' = position + Min(bufferSize, delta)
                  /\ delta <= bufferSize
                        => /\ position' = curSize
                           /\ pending' = CompleteLines(Split(remainder \o
                                  Text(SubSeq(file, position + 1, curSize))))
                  /\ delta > bufferSize => position' < curSize
        /\ pc' = "s_wait" => pending' = <<>>
      ]_vars

C10_Witness ==
    /\ pc = "s_wait" /\ pathKind = "file"
    /\ bufferSize = 3 /\ statSize = 1
    /\ curSize = 4 /\ position = 4
    /\ file = <<LF, 195, 169, LF>>
    /\ emitted = << <<233>> >>

C10_WitnessShort ==
    /\ pc = "s_wait" /\ pathKind = "file"
    /\ bufferSize = 1 /\ curSize = 3 /\ position = 2
    /\ file[3] = LF

\* ---------------------------------------------------------------- C11
\* The text of the first `position` bytes of the file.
ReadSoFar == Text(SubSeq(file, 1, position))

\* The items emitted since the last stat that saw the file shrunk.
SinceShrink == SubSeq(emitted, shrink.mark + 1, Len(emitted))

\* The stat of a cycle that finds the file smaller than position.
C11_Step ==
    (pc = "s_wstat" /\ pc' \in {"s_wread", "s_wait"} /\ Len(file) < position)
    => /\ position' = 0
       /\ remainder' = <<>>
       /\ emitted' = emitted
       /\ error' = error
       /\ outcome' = outcome

\* After that stat, and until the file is truncated again, what the loop
\* holds and emits is the text of the new file from its byte 0 and nothing
\* of the remainder that was cleared.
C11_FromByteZero ==
    (shrink.seen /\ truncs = shrink.truncs)
    => /\ pc \in {"s_wread", "s_wyield", "s_wait"} =>
            /\ position <= Len(file)
            /\ remainder = LastLine(Split(ReadSoFar))
            /\ SinceShrink \o pending = CompleteLines(Split(ReadSoFar))
       /\ pc = "s_flushed" =>
            SinceShrink = CompleteLines(Split(ReadSoFar)) \o <<LastLine(Split(ReadSoFar))>>

\* C11: when a stat of the watch loop reports a size below position, the
\* position becomes 0 and the remainder empty without an item being emitted
\* or an error raised; from then on the items, the remainder and the final
\* flush are those of the shrunken file read from its byte 0, so the text
\* that was in the remainder is not emitted.
C11_TruncationResets == [][C11_Step]_vars /\ []C11_FromByteZero

\* An unterminated "a" was in the remainder when the file shrank to a single
\* line feed; the cycle has read that line feed and emitted nothing.
C11_Witness ==
    /\ shrink.seen /\ shrink.dropped = <<97>>
    /\ pc = "s_wyield" /\ position = 1 /\ file = <<LF>>
    /\ pending = <<>> /\ SinceShrink = <<>> /\ remainder = <<>>
\* ---------------------------------------------------------------- C12
\* The signal was aborted after the call had started.
FiredDuringStreaming == abortedAt \notin {"", "s_call"}

\* The call is over and the consumer did not stop it.
Terminated == pc \in {"s_done", "s_failed"}

\* The yield of the remainder after the loop.
C12_FlushStep ==
    /\ (pc' = "s_flushed" /\ pc # "s_flushed")
       => /\ Len(remainder) > 0
          /\ emitted' = Append(emitted, remainder)
          /\ remainder' = remainder
    /\ (pc' = "s_finally" /\ outcome' = "return" /\ pc \notin {"s_flushed", "s_finally"})
       => /\ Len(remainder') = 0
          /\ emitted' = emitted
    /\ pc \in {"s_flushed", "s_finally", "s_done", "s_failed"} => emitted' = emitted

\* C12 as stated: whenever the signal fires during streaming the sequence
\* ends normally, the flush of a non-empty remainder being its last item.
C12_CancelEndsNormally ==
    [][C12_FlushStep]_vars /\ []((FiredDuringStreaming /\ Terminated) => pc = "s_done")

\* The call failed in its initial open, stat or read, before any item.
FailedAtStart ==
    /\ pc = "s_failed" /\ fails = 0 /\ position = 0
    /\ emitted = <<>> /\ error \notin {"", "Aborted"}

\* C12: when the signal fires during streaming, at any point but the close
\* and reopen that follow a failed stat or read (and the close of the
\* finally clause, when the sequence is already ending), the sequence ends
\* normally unless the signal fired during the initial read and the open,
\* stat or read of the initial read failed afterwards; a non-empty remainder
\* is yielded once, as the last item, and an empty one yields nothing.
C12_CancelFlushesOnce ==
    /\ [][C12_FlushStep]_vars
    /\ []((FiredDuringStreaming /\ abortedAt \notin {"s_close", "s_reopen", "s_finally"}
           /\ Terminated)
          => \/ pc = "s_done"
             \/ abortedAt \in {"s_open", "s_stat", "s_scan"} /\ FailedAtStart)

\* The signal fired during a poll wait with "a" in the remainder; the
\* sequence has ended normally with "a" as its last item.
C12_Witness ==
    /\ abortedAt = "s_wait" /\ pc = "s_done"
    /\ remainder = <<97>>
    /\ Len(emitted) = 2 /\ emitted[2] = remainder

\* The signal fired with an empty remainder: nothing follows the lines.
C12_WitnessEmpty ==
    /\ abortedAt = "s_wait" /\ pc = "s_done" /\ grown > 0
    /\ remainder = <<>> /\ emitted = <<<<97>>>>
\* ---------------------------------------------------------------- C13
\* C13: when the signal fires during the poll wait, the wait is over at
\* once (the call is in its catch clause, not waiting for the timer), no
\* stat, read or reopen is issued afterwards, and the sequence ends.
C13_WaitAbandoned ==
    /\ [](abortedAt = "s_wait" => pc \notin {"s_wait", "s_wstat", "s_wread", "s_close", "s_reopen"})
    /\ [][(abortedAt' = "s_wait" /\ abortedAt = "") => pc' = "s_catch"]_vars
    /\ ((abortedAt = "s_wait") ~> (pc = "s_done"))

\* The signal fired during a poll wait that followed a read of appended
\* bytes, and the sequence has ended with the handle closed.
C13_Witness ==
    /\ abortedAt = "s_wait" /\ pc = "s_done"
    /\ grown > 0 /\ position = Len(file)
    /\ fileHandle \notin openHandles
\* ---------------------------------------------------------------- C14
\* The catch clause taken with the signal not aborted: the close of the
\* handle is issued.
C14_CatchStep ==
    (pc = "s_catch" /\ pc' # pc /\ ~aborted)
    => /\ pc' = "s_close"
       /\ openHandles' = openHandles /\ fileHandle' = fileHandle
       /\ emitted' = emitted
       /\ error' = error
       /\ outcome' = outcome

\* The close of the recovery: the handle is closed and the reopen issued,
\* or the close fails and the caught error is thrown.
C14_CloseStep ==
    (pc = "s_close" /\ pc' # pc)
    => /\ emitted' = emitted
       /\ error' = error
       /\ \/ pc' = "s_reopen" /\ outcome' = outcome /\ fileHandle \notin openHandles'
          \/ pc' = "s_finally" /\ outcome' = "throw"

\* The reopen: a new handle, position 0, an empty remainder and the next
\* cycle's stat (the end of the loop if the signal was aborted meanwhile),
\* or the caught error thrown.
C14_ReopenStep ==
    (pc = "s_reopen" /\ pc' # pc)
    => /\ emitted' = emitted
       /\ error' = error
       /\ \/ /\ fileHandle' \in openHandles' /\ fileHandle' # fileHandle
             /\ position' = 0
             /\ remainder' = <<>>
             /\ pathKind' = pathKind /\ file' = file
             /\ pc' = IF aborted THEN "s_finally" ELSE "s_wstat"
             /\ outcome' = IF aborted THEN "return" ELSE outcome
          \/ /\ pc' = "s_finally" /\ outcome' = "throw"
             /\ fileHandle' = fileHandle

\* Once an error is on its way to the consumer nothing is emitted.
C14_ThrowStep ==
    (outcome = "throw" /\ pc \in {"s_finally", "s_failed"}) => emitted' = emitted

\* After a reopen the initial read is not run again, a read at position 0
\* starts from an empty remainder, and, on a file that was not cut, the
\* last items are the lines of the file from its byte 0 (all the items after
\* the initial ones, on a file that was not changed).
C14_FromByteZero ==
    /\ fails > 0 => pc \notin {"s_call", "s_open", "s_stat", "s_scan", "s_inityield"}
    /\ (pc \in {"s_wstat", "s_wread"} /\ position = 0) => remainder = <<>>
    /\ pc = "s_failed" => error # ""
    /\ (fails = 1 /\ truncs = 0 /\ pc \in {"s_wyield", "s_wait"})
       => /\ remainder = LastLine(Split(ReadSoFar))
          /\ LET all == emitted \o pending
                 new == CompleteLines(Split(ReadSoFar))
             IN /\ Len(all) >= Len(new)
                /\ SubSeq(all, Len(all) - Len(new) + 1, Len(all)) = new
          /\ grown = 0
             => emitted \o pending = NonEmpty(Split(result)) \o CompleteLines(Split(ReadSoFar))

\* C14: a stat or read of the watch loop that fails while the signal is not
\* aborted is followed by the close of the handle and a reopen of the path;
\* a successful reopen leaves position 0 and an empty remainder and the loop
\* goes on with a stat, without the backward scan, emitting the file from
\* its byte 0; a failed close or reopen ends the sequence with the error
\* and no further item.
C14_ReopenRecovery ==
    /\ [][C14_CatchStep /\ C14_CloseStep /\ C14_ReopenStep /\ C14_ThrowStep]_vars
    /\ []C14_FromByteZero

\* The file was "a", emitted by the initial read, and a line feed was
\* appended; a stat failed, the file was reopened and "a" has been emitted
\* again, from byte 0.
C14_Witness ==
    /\ fails = 1 /\ grown = 1 /\ truncs = 0 /\ ~aborted
    /\ file = <<97, LF>> /\ maxLines = 1 /\ statSize = 1
    /\ pc = "s_wait" /\ position = 2
    /\ emitted = <<<<97>>, <<97>>>>
    /\ fileHandle = 2 /\ openHandles = {2}

\* The reopen failed and the sequence has ended with the error of the stat.
C14_WitnessFailed ==
    /\ fails = 1 /\ ~aborted /\ pc = "s_failed" /\ error = "EIO"
    /\ pathKind = "missing" /\ emitted = <<<<97>>>> /\ openHandles = {}
\* ---------------------------------------------------------------- C15
\* C15 as stated: the cycle whose stat finds the file shrunk issues no read
\* and emits nothing; position stays 0 until the next cycle.
C15_NoReadInShrinkCycle ==
    shrink.seen => /\ pc \notin {"s_wread", "s_wyield"}
                   /\ position = 0
                   /\ SinceShrink = <<>>

\* The stat that finds the file shrunk: the read is issued at once when the
\* file is not empty.
C15_Step ==
    (pc = "s_wstat" /\ pc' \in {"s_wread", "s_wait"} /\ Len(file) < position)
    => pc' = IF Len(file) > 0 THEN "s_wread" ELSE "s_wait"

\* C15: the cycle that detects shrinkage resets position and remainder and,
\* when the shrunken file is not empty, reads its first
\* min(bufferSize, size) bytes and emits their complete lines in the same
\* cycle, before the poll wait; it reads nothing only when the file is empty.
C15_ReadInShrinkCycle ==
    /\ [][C15_Step]_vars
    /\ []((shrink.seen /\ pc = "s_wread") => position = 0 /\ curSize > 0)
    /\ []((shrink.seen /\ truncs = shrink.truncs /\ pc \in {"s_wyield", "s_wait"})
          => /\ position = Min(bufferSize, curSize)
             /\ SinceShrink \o pending = CompleteLines(Split(ReadSoFar)))

\* The file "aa" was cut to "a": the cycle that saw the size fall from 2 to 1
\* has read the byte and is at its poll wait with "a" as remainder.
C15_Witness ==
    /\ shrink.seen /\ shrink.dropped = <<97>> /\ truncs = 1 /\ fails = 0
    /\ statSize = 1 /\ grown = 1 /\ curSize = 1 /\ file = <<97>>
    /\ pc = "s_wait" /\ position = 1 /\ remainder = <<97>>
\* ---------------------------------------------------------------- C16
\* The bytes the watch loop has consumed on a file that only grows.
Watched == SubSeq(file, statSize + 1, position)

\* The items emitted after those of the initial read.
WatchItems == SubSeq(emitted, Len(NonEmpty(Split(result))) + 1, Len(emitted))

\* A piece of text that is one (part of a) line.
NoLineFeed(s) == \A i \in 1..Len(s) : s[i] # LF

\* The read of a cycle: the working string is the remainder followed by the
\* decoded bytes; its last element is the new remainder, the other non-empty
\* elements are the items of the cycle; nothing else changes the remainder.
C16_ReadStep ==
    /\ (pc = "s_wread" /\ pc' = "s_wyield")
       => LET buf == SubSeq(file, position + 1, position')
              lines == Split(remainder \o Text(buf))
          IN /\ position' > position
             /\ remainder' = LastLine(lines)
             /\ pending' = CompleteLines(lines)
             /\ emitted' = emitted
    /\ (pc = "s_wyield" /\ emitted' # emitted)
       => /\ emitted' = Append(emitted, Head(pending))
          /\ pending' = Tail(pending)
          /\ remainder' = remainder
    /\ pc' = "s_wait" => pending' = <<>>

\* Every item is non-empty and free of line feeds, and so is the remainder
\* of line feeds.
C16_ItemsAreLines ==
    /\ \A i \in 1..Len(emitted) : Len(emitted[i]) > 0 /\ NoLineFeed(emitted[i])
    /\ \A i \in 1..Len(pending) : Len(pending[i]) > 0 /\ NoLineFeed(pending[i])
    /\ NoLineFeed(remainder)

\* The split of the working string and what follows from it for the items
\* and the remainder.
C16_SplitOfWorkingString == [][C16_ReadStep]_vars /\ []C16_ItemsAreLines

\* A line read in several pieces is carried whole: the remainder is the
\* text of the bytes consumed since the last line feed, and the items are
\* the texts of the lines whose line feed has been read.
C16_LinesWhole ==
    (pathKind = "file" /\ pc \in {"s_wstat", "s_wread", "s_wyield", "s_wait"})
    => /\ remainder = LastLine(Split(Text(Watched)))
       /\ WatchItems \o pending = CompleteLines(Split(Text(Watched)))

\* C16: in a cycle that reads bytes the working string is the remainder
\* followed by the decoded bytes, its last element becomes the remainder and
\* the other non-empty elements are emitted in order; so every item is
\* non-empty and without line feed, the remainder has no line feed, and a
\* line read over several polls is emitted once, whole, by the cycle that
\* reads its line feed.
C16_SplitLineEmittedWhole == C16_SplitOfWorkingString /\ []C16_LinesWhole
\* ---------------------------------------------------------------- C17
\* The reads issued so far, in order: <<"read", offset, length>>.
Reads == SelectSeq(ioLog, IsRead)

\* ceil(a / b)
CeilDiv(a, b) == (a + b - 1) \div b

InScan == pc \in {"o_scan", "s_scan"}

\* The scan position of the entry point that is running.
ScanPosition == IF pc = "o_scan" THEN position ELSE searchPosition

\* While the scan runs the reads are its chunk reads: at most
\* ceil(size / bufferSize) of them, the first ending at the end of the
\* file, each next one ending where the one before starts.
C17_ChunksDescend ==
    (pathKind = "file" /\ InScan)
    => /\ statSize > 0 /\ maxLines >= 1
       /\ Len(Reads) <= CeilDiv(statSize, bufferSize)
       /\ \A i \in 1..Len(Reads) :
            /\ Reads[i][3] >= 1 /\ Reads[i][3] <= bufferSize /\ Reads[i][2] >= 0
            /\ Reads[i][2] + Reads[i][3] = (IF i = 1 THEN statSize ELSE Reads[i - 1][2])
       /\ ScanPosition = (IF Reads = <<>> THEN statSize ELSE Reads[Len(Reads)][2])

\* A chunk read is issued only while the target is not reached and bytes are
\* left; once it is reached the next read is that of the result,
\* [startReadPos, size), and the scan is over.
C17_Step ==
    (pathKind = "file" /\ InScan /\ ioLog' # ioLog)
    => IF linesFound < maxLines /\ ScanPosition > 0
       THEN /\ Len(ioLog') = Len(ioLog) + 1
            /\ ioLog'[Len(ioLog')][3] = Min(bufferSize, ScanPosition)
       ELSE /\ pc' # pc
            /\ ioLog' = Append(ioLog, <<"read", startReadPos', statSize - startReadPos'>>)
            /\ linesFound >= maxLines => startReadPos' = startReadPos

\* C17: for a file of size > 0, maxLines >= 1 and bufferSize >= 1 the
\* backward scan issues at most ceil(size / bufferSize) chunk reads, each
\* covering the range just below the one before, and none after the chunk in
\* which linesFound reaches maxLines.
C17_ScanBounded == []C17_ChunksDescend /\ [][C17_Step]_vars

\* The one-shot read of "a\na\n" with bufferSize 1 and maxLines 1: three
\* chunk reads find the second line feed from the end, the fourth byte from
\* the end is never read, and the result is read from offset 2.
C17_Witness ==
    /\ pc = "o_done" /\ pathKind = "file"
    /\ file = <<97, LF, 97, LF>> /\ bufferSize = 1 /\ maxLines = 1
    /\ Reads = << <<"read", 3, 1>>, <<"read", 2, 1>>, <<"read", 1, 1>>, <<"read", 2, 2>> >>

\* The same scan in the streaming call.
C17_WitnessStream ==
    /\ pc = "s_inityield" /\ pathKind = "file"
    /\ file = <<97, LF, 97, LF>> /\ bufferSize = 1 /\ maxLines = 1
    /\ Reads = << <<"read", 3, 1>>, <<"read", 2, 1>>, <<"read", 1, 1>>, <<"read", 2, 2>> >>
\* ---------------------------------------------------------------- C18
\* The call is in its watch loop.
InWatchLoop ==
    pc \in {"s_wstat", "s_wread", "s_wyield", "s_wait", "s_catch", "s_close", "s_reopen"}

\* The position is never negative, and once the read of a cycle is done it
\* is at most the size the cycle's stat returned.
C18_PositionInFile ==
    /\ InWatchLoop => position >= 0
    /\ pc \in {"s_wread", "s_wyield", "s_wait"} => position <= curSize

\* The three ways the position changes in the watch loop: a read adds the
\* number of bytes it returned; a stat that finds the file smaller than the
\* position, and a reopen, set it to 0.
C18_Step ==
    (InWatchLoop /\ position' # position)
    => \/ /\ pc = "s_wread"
          /\ position' - position
                = Len(ReadAt(file, position, Min(bufferSize, curSize - position)))
          /\ position' > position
       \/ /\ pc = "s_wstat" /\ Len(file) < position
          /\ position' = 0
       \/ /\ pc = "s_reopen" /\ fileHandle' # fileHandle
          /\ position' = 0

\* C18: in the watch loop the position is at least 0 and, at the end of a
\* cycle, at most the size the cycle's stat observed; it changes only by the
\* number of bytes a read returned or by a reset to 0 on shrinkage or
\* reopen, so it decreases in no other step.
C18_PositionMonotone == []C18_PositionInFile /\ [][C18_Step]_vars

\* Two bytes were appended to an empty file; a read failed, the file was
\* reopened, and two cycles of one byte each have brought the position from
\* 0 back to the size.
C18_Witness ==
    /\ pc = "s_wait" /\ statSize = 0 /\ grown = 2 /\ truncs = 0
    /\ fails = 1 /\ fileHandle = 2
    /\ bufferSize = 1 /\ position = 2 /\ curSize = 2
\* ---------------------------------------------------------------- C19
\* The stat of a cycle is issued when the poll wait of the cycle before has
\* ended, or, for the first cycle, when the initial read is over.
C19_CycleStartsAfterWait ==
    (pc' = "s_wstat" /\ pc # "s_wstat") => pc \in {"s_wait", "s_inityield"}

\* A failing cycle closes and reopens once: the reopen is followed by the
\* loop test or by the throw, never by another attempt.
C19_OneAttempt ==
    /\ (pc = "s_catch" /\ pc' # pc) => pc' \in {"s_close", "s_flushed", "s_finally"}
    /\ (pc = "s_close" /\ pc' # pc) => pc' \in {"s_reopen", "s_finally"}
    /\ (pc = "s_reopen" /\ pc' # pc) => pc' \in {"s_wstat", "s_finally"}

\* C19: there is a poll wait between any two consecutive watch cycles,
\* also after a cycle whose stat or read failed and whose reopen succeeded,
\* and a failing cycle makes one close-and-reopen attempt.
C19_WaitBetweenCycles == [][C19_CycleStartsAfterWait /\ C19_OneAttempt]_vars
\* ---------------------------------------------------------------- C20
\* C20 as stated: once the signal has fired, the only item the watch loop
\* emits is the flush of the remainder.
C20_OnlyFlushAfterCancel ==
    [][(aborted /\ InWatchLoop /\ emitted' # emitted) => pc' = "s_flushed"]_vars

\* After the signal has fired no cycle is started; the stat or read that was
\* in flight is finished, with the read that follows such a stat, and the
\* items emitted are the lines of that one batch, then the flush.
C20_Step ==
    aborted
    => /\ ~(pc' = "s_wstat" /\ pc # "s_wstat")
       /\ (pc = "s_wstat" /\ pc' = "s_wread") => abortedAt = "s_wstat"
       /\ (pc = "s_wread" /\ pc' = "s_wyield") => abortedAt \in {"s_wstat", "s_wread"}
       /\ (InWatchLoop /\ emitted' # emitted)
          => \/ /\ pc = "s_wyield" /\ pc' = pc
                /\ abortedAt \in {"s_wstat", "s_wread", "s_wyield"}
                /\ emitted' = Append(emitted, Head(pending))
                /\ pending' = Tail(pending)
             \/ /\ pc' = "s_flushed"
                /\ emitted' = Append(emitted, remainder)

\* C20: the signal is tested before each cycle and interrupts the poll
\* wait only: once it has fired no new cycle begins, but a stat or read that
\* was in flight completes and the complete lines of that cycle's batch are
\* still emitted; after them only the flush of the remainder follows.
C20_NoNewCycleAfterCancel == [][C20_Step]_vars

\* The signal fired while the read of the appended "a\n" was in flight: the
\* line was emitted all the same and the sequence has ended.
C20_Witness ==
    /\ abortedAt = "s_wread" /\ pc = "s_done"
    /\ statSize = 0 /\ file = <<97, LF>> /\ position = 2
    /\ emitted = <<<<97>>>> /\ remainder = <<>>

\* ---------------------------------------------------------------- C21
\* C21: a poll wait that begins with the signal already aborted is over at
\* once, as one interrupted by the signal is: the call is never waiting for
\* the timer while the signal is aborted.
C21_NoWaitWhenCancelled == pc = "s_wait" => ~aborted

\* ---------------------------------------------------------------- C22
\* The catch clause taken with the signal aborted: the loop is left with
\* the handle, the position and the remainder as they are, and the remainder
\* is yielded if it is not empty.
C22_CatchStep ==
    (pc = "s_catch" /\ aborted /\ pc' # pc)
    => /\ fileHandle' = fileHandle /\ openHandles' = openHandles
       /\ nextHandle' = nextHandle
       /\ position' = position
       /\ remainder' = remainder
       /\ IF Len(remainder) > 0
          THEN /\ pc' = "s_flushed"
               /\ emitted' = Append(emitted, remainder)
               /\ outcome' = outcome
          ELSE /\ pc' = "s_finally"
               /\ emitted' = emitted
               /\ outcome' = "return"

\* No close or reopen is in progress for a failure caught after the signal
\* was aborted, and a call whose loop caught a failure with the signal
\* aborted ends normally.
C22_EndsStopped ==
    /\ pc \in {"s_close", "s_reopen"} => abortedAt \in {"", "s_close", "s_reopen"}
    /\ (aborted /\ abortedAt \notin {"s_close", "s_reopen", "s_finally"}
          /\ (fails > 0 \/ error = "Aborted") /\ Terminated)
       => pc = "s_done" /\ outcome = "return"

\* C22: a failure caught in the watch loop while the signal is aborted (the
\* rejected wait, or a stat or read error after the cancellation) ends the
\* loop as a cancellation does: no close, no reopen, position and remainder
\* kept, the remainder flushed, and a normal end of the sequence.
C22_FailureAfterCancelStops == [][C22_CatchStep]_vars /\ []C22_EndsStopped

\* The signal fired while a stat was in flight and the stat then failed:
\* the remainder "a" was flushed, the first handle was never replaced, and
\* the sequence has ended normally.
C22_Witness ==
    /\ abortedAt = "s_wstat" /\ fails = 1 /\ error = "EIO"
    /\ pc = "s_done" /\ outcome = "return"
    /\ fileHandle = 1 /\ nextHandle = 2 /\ openHandles = {}
    /\ position = 1 /\ remainder = <<97>> /\ emitted = <<<<97>>>>

\* ---------------------------------------------------------------- C23
\* The sum of the lengths of the texts of a sequence.
RECURSIVE TotalLen(_)
TotalLen(ls) == IF ls = <<>> THEN 0 ELSE Len(Head(ls)) + TotalLen(Tail(ls))

\* The number of line feeds among bytes.
LineFeeds(bs) == Cardinality({i \in 1..Len(bs) : bs[i] = LF})

\* The file had an unterminated last line when the initial read ran.
UnterminatedAtStart ==
    /\ pathKind = "file" /\ maxLines >= 1
    /\ statSize > 0 /\ file[statSize] # LF

\* The text of the file as it was at the initial read.
InitialText == Text(SubSeq(file, 1, statSize))

\* The number of items of the initial read.
InitialCount == Len(NonEmpty(Split(result)))

\* The step from the initial read to the watch loop.
C23_EnterStep ==
    (pc = "s_inityield" /\ pc' # pc /\ UnterminatedAtStart)
    => /\ position' = statSize
       /\ remainder' = <<>>
       /\ InitialCount >= 1
       /\ emitted = NonEmpty(Split(result))
       /\ emitted[InitialCount] = LastLine(Split(InitialText))
       /\ emitted' = emitted

\* In the watch loop the items of the initial read stay as they are, and
\* what is emitted or held after them is made of the appended bytes only:
\* it has no more characters than the bytes consumed have, line feeds
\* apart, and it is the text of the appended lines when those bytes are
\* plain text.
C23_AppendedApart ==
    (UnterminatedAtStart /\ pc \in {"s_wstat", "s_wread", "s_wyield", "s_wait"})
    => /\ SubSeq(emitted, 1, InitialCount) = NonEmpty(Split(result))
       /\ emitted[InitialCount] = LastLine(Split(InitialText))
       /\ TotalLen(WatchItems) + TotalLen(pending) + Len(remainder)
             <= Len(Watched) - LineFeeds(Watched)
       /\ (\A i \in 1..Len(Watched) : Watched[i] \in TextBytes)
          => /\ remainder = LastLine(Split(Text(Watched)))
             /\ WatchItems \o pending = CompleteLines(Split(Text(Watched)))

\* C23: when the file does not end in a line feed at the initial read, its
\* unterminated last line is an item of the initial read and the watch loop
\* starts with an empty remainder at position = size; the bytes appended
\* later that complete the line make an item of their own, and the part
\* already emitted is not emitted again.
C23_PartialLineEmittedApart == [][C23_EnterStep]_vars /\ []C23_AppendedApart

\* The file was "a"; "a" was emitted by the initial read; "a\n" was then
\* appended and emitted as the item "a", not "aa".
C23_Witness ==
    /\ pc = "s_wait" /\ maxLines = 1 /\ statSize = 1
    /\ file = <<97, 97, LF>> /\ position = 3
    /\ emitted = <<<<97>>, <<97>>>> /\ remainder = <<>>

\* ---------------------------------------------------------------- C24
\* The initial stat is done and found nothing to read back: maxLines <= 0
\* or an empty file.
InitialReadSkipped ==
    /\ pathKind = "file"
    /\ pc \notin {"s_call", "s_open", "s_stat"}
    /\ maxLines <= 0 \/ statSize = 0

\* The open comes first whatever maxLines is, and a path that cannot be
\* opened ends the call with the open error and no item.
C24_OpenFirst ==
    /\ pc # "s_call" => (Len(ioLog) >= 1 /\ ioLog[1] = <<"open">>)
    /\ (pathKind # "file" /\ pc \notin {"s_call", "s_open"})
       => /\ pc \in {"s_finally", "s_failed"}
          /\ outcome = "throw" /\ error = OpenError(pathKind)
          /\ emitted = <<>>

\* Nothing is read or emitted by the initial read, and what is emitted in
\* the watch loop is the text of the lines appended after the initial stat.
C24_OnlyAppended ==
    InitialReadSkipped
    => /\ pc # "s_scan" /\ Reads = <<>> /\ result = <<>>
       /\ pc = "s_inityield" => emitted = <<>> /\ pending = <<>>
       /\ pc \in {"s_wstat", "s_wread", "s_wyield", "s_wait"}
          => /\ position <= Len(file) /\ position >= statSize
             /\ (\A i \in 1..Len(Watched) : Watched[i] \in TextBytes)
                => /\ remainder = LastLine(Split(Text(Watched)))
                   /\ emitted \o pending = CompleteLines(Split(Text(Watched)))

\* The step into the watch loop: position = size, and the first stat of the
\* loop unless the signal is aborted.
C24_EnterStep ==
    (InitialReadSkipped /\ pc = "s_inityield" /\ pc' # pc)
    => /\ position' = statSize
       /\ remainder' = <<>> /\ emitted' = <<>>
       /\ pc' = IF aborted THEN "s_finally" ELSE "s_wstat"

\* C24: in streaming mode maxLines <= 0 or an empty file leaves the initial
\* read empty and nothing else: the file is opened first (a path that cannot
\* be opened fails also with maxLines <= 0), no item comes from the initial
\* read, and the watch loop starts at position = size and emits the lines
\* appended afterwards.
C24_EmptyInitialStillWatches ==
    []C24_OpenFirst /\ []C24_OnlyAppended /\ [][C24_EnterStep]_vars

\* maxLines 0 on the file "a": nothing was emitted for it; "\na\n" was then
\* appended and the "a" of it emitted.
C24_Witness ==
    /\ maxLines = 0 /\ statSize = 1 /\ pc = "s_wait"
    /\ file = <<97, LF, 97, LF>> /\ position = 4
    /\ emitted = <<<<97>>>> /\ Reads = <<>>

\* maxLines 0 on a path that does not exist: the call has failed.
C24_WitnessMissing ==
    /\ maxLines = 0 /\ pathKind = "missing" /\ pc = "s_failed"
    /\ error = OpenError("missing") /\ ioLog = <<<<"open">>>>

\* ---------------------------------------------------------------- C25
\* The signal was aborted before the call.
CancelledAtStart == abortedAt = "s_call"

\* What the one-shot call returns for the file as the initial stat saw it.
InitialResult ==
    IF maxLines > 0 /\ statSize > 0
    THEN OnceResult(SubSeq(file, 1, statSize), maxLines, bufferSize, encoding)
    ELSE <<>>

\* The call never is in the watch loop or at the flush; the remainder stays
\* empty; an error, if any, is one of the initial open, stat or read; at the
\* end the handle is closed and, without such an error, the items are the
\* lines of the initial read, all of them.
C25_ZeroCycles ==
    CancelledAtStart
    => /\ ~InWatchLoop /\ pc # "s_flushed"
       /\ remainder = <<>> /\ position \in {0, statSize}
       /\ outcome = "throw" => (error # "" /\ error # "Aborted" /\ Len(pending) = 0)
       /\ pc \in {"s_done", "s_failed"} => openHandles = {}
       /\ pc = "s_failed" => outcome = "throw"
       /\ pc \in {"s_inityield", "s_finally", "s_done"} /\ outcome # "throw"
          => emitted \o pending = NonEmpty(Split(InitialResult))
       /\ pc = "s_done" => pending = <<>> /\ fileHandle # 0

\* C25: with the signal aborted before the call the initial read is done
\* and its lines are emitted in full; the watch loop runs no cycle (no stat,
\* read or wait follows), nothing else is emitted, the handle is closed and
\* the sequence ends, normally once the initial read has succeeded.
C25_CancelledBeforeStart ==
    /\ []C25_ZeroCycles
    /\ (CancelledAtStart ~> (pc \in {"s_done", "s_failed"}))
    /\ ((CancelledAtStart /\ pc = "s_inityield") ~> (pc = "s_done"))

\* The signal was aborted before the call on the file "a": "a" was emitted,
\* no cycle was run and the handle is closed.
C25_Witness ==
    /\ CancelledAtStart /\ pc = "s_done"
    /\ file = <<97>> /\ maxLines = 1
    /\ emitted = <<<<97>>>> /\ position = 1
    /\ fileHandle = 1 /\ openHandles = {} /\ grown = 0
====
